---- MODULE Spec2Model ----
(***************************************************************************)
(* auto-QSR: the Platform Summarizer (src/src/platform_agent.py) and the   *)
(* Aggregator (src/src/aggregate_agent.py) as sequential processes over    *)
(* the PSS files, the QSR file and the qsr_reports table.                  *)
(*                                                                         *)
(* JSON values are tagged records; a string is a tuple of fragments so     *)
(* that f-strings and startswith() can be computed.  A text (an LLM reply  *)
(* or a file's content) is a body with an optional Markdown fence before   *)
(* and after it; json_loads accepts a text only when it is a bare JSON     *)
(* body.                                                                   *)
(***************************************************************************)
EXTENDS Integers, Sequences, FiniteSets, TLC

VARIABLES
    pss,      \* the files <surface>.pss.json
    qsrFile,  \* the file at output_qsr_file
    db,       \* data/qsr.duckdb: the file, the qsr_reports table and its rows
    clock,    \* the database clock, now()
    pc,       \* where the running process stands
    run,      \* the current or last invocation: its inputs, locals and outcome
    view,     \* what the Dashboard last showed
    probe     \* one function of the program, its input and its results

vars == <<pss, qsrFile, db, clock, pc, run, view, probe>>

----------------------------------------------------------------------------
(* Bounds *)

\* the Aggregator's invocations are numbered by the clock; at most MaxClock
MaxClock == 2
\* tiers an LLM reply may carry are 0..MaxLlmTier (the valid ones are 0..3)
MaxLlmTier == 4
\* the text between the fences of a reply has at most MaxPayload characters
MaxPayload == 3

----------------------------------------------------------------------------
(* JSON values *)

JNull == [t |-> "null"]
JTrue == [t |-> "bool", v |-> TRUE]
JInt(n) == [t |-> "int", v |-> n]
JStr(s) == [t |-> "str", v |-> s]
JArr(s) == [t |-> "arr", v |-> s]
JObj(f) == [t |-> "obj", v |-> f]

EmptyMap == [k \in {} |-> JNull]

\* isinstance(j, dict)
IsDict(j) == j.t = "obj"

\* isinstance(j, dict) and k in j
HasKey(j, k) == IsDict(j) /\ k \in DOMAIN j.v

\* dict.get(k, default)
Get(j, k, default) == IF k \in DOMAIN j.v THEN j.v[k] ELSE default

\* Python truthiness of a JSON value
Truthy(j) ==
    CASE j.t = "null" -> FALSE
      [] j.t = "bool" -> j.v
      [] j.t = "int"  -> j.v # 0
      [] j.t = "str"  -> j.v # <<>>
      [] j.t = "arr"  -> j.v # <<>>
      [] j.t = "obj"  -> DOMAIN j.v # {}

----------------------------------------------------------------------------
(* Texts, json.loads and json.dump *)

\* how a text opens: with no fence, with the fence tagged json, or with a bare fence
Fences == {"", "fence_json", "fence"}

\* a text: [open] body [close]; the body is the JSON text of doc or is not JSON
Text(open, close, isJson, doc) ==
    [open |-> open, close |-> close, isJson |-> isJson, doc |-> doc]

Garbage == Text("", FALSE, FALSE, JNull)

\* json.dump / json.dumps
json_dumps(doc) == Text("", FALSE, TRUE, doc)

\* json.loads: the value, or a JSONDecodeError
json_loads(text) ==
    IF text.open = "" /\ ~text.close /\ text.isJson
    THEN [ok |-> TRUE, doc |-> text.doc]
    ELSE [ok |-> FALSE, doc |-> JNull]

\* json_text.strip()[n:-3].strip() for a text that starts with a fence: the
\* opening fence goes, and the last three characters go, which are the closing
\* fence when there is one and the end of the body otherwise.  Every JSON body
\* of the model is an object or an array, so a body that lost its last three
\* characters is no longer JSON; a body that is not JSON is taken to stay so.
StripFence(text) ==
    IF text.open = "" THEN text
    ELSE IF text.close THEN Text("", FALSE, text.isJson, text.doc)
    ELSE Text("", FALSE, FALSE, JNull)

----------------------------------------------------------------------------
(* Texts character by character, for the clean-up of query_llm *)

\* str.lstrip(), str.rstrip() and str.strip(); the whitespace character is " "
RECURSIVE lstrip(_)
lstrip(s) == IF s # <<>> /\ Head(s) = " " THEN lstrip(Tail(s)) ELSE s

RECURSIVE rstrip(_)
rstrip(s) == IF s # <<>> /\ s[Len(s)] = " " THEN rstrip(SubSeq(s, 1, Len(s) - 1)) ELSE s

strip(s) == rstrip(lstrip(s))

\* s.startswith(prefix)
text_startswith(s, prefix) == Len(s) >= Len(prefix) /\ SubSeq(s, 1, Len(prefix)) = prefix

\* s[n:-3]
SliceToLast3(s, n) == IF Len(s) - 3 > n THEN SubSeq(s, n + 1, Len(s) - 3) ELSE <<>>

\* the backquote character, which a string of this notation cannot hold
Backquote == "backquote"

FenceJson == <<Backquote, Backquote, Backquote, "j", "s", "o", "n">>
Fence == <<Backquote, Backquote, Backquote>>

\* platform_agent.query_llm lines 88-93
platform_clean_markdown(json_text) ==
    IF text_startswith(strip(json_text), FenceJson)
    THEN strip(SliceToLast3(strip(json_text), 7))
    ELSE IF text_startswith(strip(json_text), Fence)
    THEN strip(SliceToLast3(strip(json_text), 3))
    ELSE json_text

\* aggregate_agent.query_llm lines 56-58
aggregate_clean_markdown(json_text) ==
    IF text_startswith(strip(json_text), FenceJson)
    THEN strip(SliceToLast3(strip(json_text), 7))
    ELSE IF text_startswith(strip(json_text), Fence)
    THEN strip(SliceToLast3(strip(json_text), 3))
    ELSE json_text

----------------------------------------------------------------------------
(* Environment and provider selection *)

DEFAULT_LLM_MODEL == <<"gpt", "-4o-mini">>

ModelNames == {<<"gpt", "-4o-mini">>, <<"gemini", "-1.5-flash">>, <<"mistral", "-small">>}

\* os.getenv("LLM_API_KEY") is truthy; os.getenv("LLM_MODEL") or unset (<<>>);
\* the openai / google.generativeai imports succeeded
Envs == [key : BOOLEAN, model : ModelNames \cup {<<>>}, OpenAI : BOOLEAN, genai : BOOLEAN]

startswith(name, prefix) == name # <<>> /\ Head(name) = prefix

Selected(provider, model) == [ok |-> TRUE, provider |-> provider, model |-> model, err |-> "none"]
ConfigError(err) == [ok |-> FALSE, provider |-> "none", model |-> <<>>, err |-> err]

\* the selection without its check of the API key
platform_get_llm_client_and_model_unchecked(env) ==
    LET model_preference == IF env.model = <<>> THEN DEFAULT_LLM_MODEL ELSE env.model
    IN  IF startswith(model_preference, "gpt") /\ env.OpenAI
             THEN Selected("openai", model_preference)
        ELSE IF startswith(model_preference, "gemini") /\ env.genai
             THEN Selected("google", model_preference)
        ELSE IF env.OpenAI THEN Selected("openai", model_preference)
        ELSE IF env.genai
             THEN Selected("google", IF startswith(model_preference, "gemini")
                                     THEN model_preference ELSE <<"gemini", "-pro">>)
        ELSE ConfigError("Neither OpenAI nor Google Generative AI libraries are installed, or LLM_MODEL is incompatible.")

platform_get_llm_client_and_model(env) ==
    LET model_preference == IF env.model = <<>> THEN DEFAULT_LLM_MODEL ELSE env.model
    IN  IF ~env.key THEN ConfigError("LLM_API_KEY environment variable not set.")
        ELSE IF startswith(model_preference, "gpt") /\ env.OpenAI
             THEN Selected("openai", model_preference)
        ELSE IF startswith(model_preference, "gemini") /\ env.genai
             THEN Selected("google", model_preference)
        ELSE IF env.OpenAI THEN Selected("openai", model_preference)
        ELSE IF env.genai
             THEN Selected("google", IF startswith(model_preference, "gemini")
                                     THEN model_preference ELSE <<"gemini", "-pro">>)
        ELSE ConfigError("Neither OpenAI nor Google Generative AI libraries are installed, or LLM_MODEL is incompatible.")

\* the selection falling back to Provider B before Provider A
aggregate_get_llm_client_and_model_google_first(env) ==
    LET model_preference == IF env.model = <<>> THEN DEFAULT_LLM_MODEL ELSE env.model
    IN  IF ~env.key THEN ConfigError("LLM_API_KEY not set.")
        ELSE IF startswith(model_preference, "gpt") /\ env.OpenAI
             THEN Selected("openai", model_preference)
        ELSE IF startswith(model_preference, "gemini") /\ env.genai
             THEN Selected("google", model_preference)
        ELSE IF env.genai
             THEN Selected("google", IF startswith(model_preference, "gemini")
                                     THEN model_preference ELSE <<"gemini", "-pro">>)
        ELSE IF env.OpenAI THEN Selected("openai", model_preference)
        ELSE ConfigError("LLM client setup failed.")

aggregate_get_llm_client_and_model(env) ==
    LET model_preference == IF env.model = <<>> THEN DEFAULT_LLM_MODEL ELSE env.model
    IN  IF ~env.key THEN ConfigError("LLM_API_KEY not set.")
        ELSE IF startswith(model_preference, "gpt") /\ env.OpenAI
             THEN Selected("openai", model_preference)
        ELSE IF startswith(model_preference, "gemini") /\ env.genai
             THEN Selected("google", model_preference)
        ELSE IF env.OpenAI THEN Selected("openai", model_preference)
        ELSE IF env.genai
             THEN Selected("google", IF startswith(model_preference, "gemini")
                                     THEN model_preference ELSE <<"gemini", "-pro">>)
        ELSE ConfigError("LLM client setup failed.")

----------------------------------------------------------------------------
(* The LLM call *)

\* what the provider's API does with one request: it raises, it answers with
\* no text (blocked or not), or it answers with a text
ApiRaises == [k |-> "raise", blocked |-> FALSE, text |-> Garbage]
ApiEmpty(blocked) == [k |-> "empty", blocked |-> blocked, text |-> Garbage]
ApiText(text) == [k |-> "text", blocked |-> FALSE, text |-> text]

\* the texts an LLM may answer with, over the JSON documents docs
ReplyTexts(docs) ==
    {Text(o, c, TRUE, d) : o \in Fences, c \in BOOLEAN, d \in docs}
    \cup {Text(o, c, FALSE, JNull) : o \in Fences, c \in BOOLEAN}

Replies(docs) ==
    {ApiRaises} \cup {ApiEmpty(b) : b \in BOOLEAN} \cup {ApiText(x) : x \in ReplyTexts(docs)}

\* query_llm returns a text, returns None, or raises
Returned(text) == [k |-> "text", text |-> text, err |-> "none"]
ReturnedNone == [k |-> "none", text |-> Garbage, err |-> "none"]
Raised(err) == [k |-> "raise", text |-> Garbage, err |-> err]

platform_query_llm(llm_provider, reply) ==
    IF llm_provider = "openai"
    THEN CASE reply.k = "raise" -> Raised("api")
           [] reply.k = "empty" -> ReturnedNone
           [] reply.k = "text"  -> Returned(reply.text)
    ELSE IF llm_provider = "google"
    THEN CASE reply.k = "raise" -> Raised("api")
           [] reply.k = "empty" ->
                IF reply.blocked
                THEN Raised("Gemini content generation stopped due to: block_reason")
                ELSE Raised("Could not extract text from Gemini response. Response may be empty or malformed.")
           [] reply.k = "text"  -> Returned(StripFence(reply.text))
    ELSE ReturnedNone

aggregate_query_llm(llm_provider, reply) ==
    IF llm_provider = "openai"
    THEN CASE reply.k = "raise" -> Raised("api")
           [] reply.k = "empty" -> ReturnedNone
           [] reply.k = "text"  -> Returned(reply.text)
    ELSE IF llm_provider = "google"
    THEN CASE reply.k = "raise" -> Raised("api")
           [] reply.k = "empty" ->
                IF reply.blocked
                THEN Raised("Gemini content generation stopped due to: block_reason")
                ELSE Raised("No text from Gemini response")
           [] reply.k = "text"  -> Returned(StripFence(reply.text))
    ELSE ReturnedNone

\* json.loads(query_llm(...)): the parsed value or the exception of the try block
LoadReply(returned) ==
    CASE returned.k = "raise" -> [ok |-> FALSE, doc |-> JNull, err |-> returned.err]
      [] returned.k = "none"  -> [ok |-> FALSE, doc |-> JNull, err |-> "TypeError"]
      [] returned.k = "text"  ->
            LET r == json_loads(returned.text)
            IN  [ok |-> r.ok, doc |-> r.doc,
                 err |-> IF r.ok THEN "none" ELSE "JSONDecodeError"]

----------------------------------------------------------------------------
(* Files, the database and the run record *)

PLATFORM_SURFACES == {"gemini", "imagen", "search"}

Missing == [st |-> "missing", text |-> Garbage]
\* a file that exists and cannot be read (open() or read() raises)
Unreadable == [st |-> "unreadable", text |-> Garbage]
File(text) == [st |-> "file", text |-> text]

\* a prompt template: absent, present without the TASK marker, or well formed
PromptStates == {"missing", "noTask", "ok"}

\* the windowed table <surface>_24h: absent, without rows, or with rows
TableStates == {"absent", "empty", "rows"}

\* no function is under test
NoProbe == [fn |-> "none"]

\* str(e) inside an f-string
ExcText == "str(e)"

NoRun ==
    [comp |-> "none", surface |-> "none", exit |-> "running", setup |-> FALSE,
     tableRows |-> FALSE, found_any_pss |-> FALSE, platform_data |-> EmptyMap,
     key |-> "unread", sel |-> ConfigError("none"), lookups |-> 0, calls |-> 0,
     sent |-> Garbage, failure |-> "none", data |-> JNull, wrote |-> FALSE,
     rowsBefore |-> 0, dbFault |-> FALSE, inserted |-> FALSE]

----------------------------------------------------------------------------
(* Platform Summarizer: platform_agent.main *)

\* the empty summary, flagged as an error
EmptySummary_flagged(surface) ==
    JObj([incidents |-> JArr(<<>>),
          summary |-> JStr(<<"No activity recorded for ", surface, " in the last 24 hours.">>),
          error |-> JTrue])

EmptySummary(surface) ==
    JObj([incidents |-> JArr(<<>>),
          summary |-> JStr(<<"No activity recorded for ", surface, " in the last 24 hours.">>)])

\* the error summary without its flag
ErrorSummary_unflagged(surface) ==
    JObj([incidents |-> JArr(<<>>),
          summary |-> JStr(<<"Error processing data for ", surface, ": ", ExcText>>)])

ErrorSummary(surface) ==
    JObj([incidents |-> JArr(<<>>),
          summary |-> JStr(<<"Error processing data for ", surface, ": ", ExcText>>),
          error |-> JTrue])

\* JSON documents an LLM may answer the Summarizer with: a PSS, an object
\* that is not a PSS, and a value that is not an object
ValidPss ==
    JObj([incidents |-> JArr(<<JStr(<<"incident">>)>>), summary |-> JStr(<<"summary">>)])
PssReplyDocs == {ValidPss, JObj([summary |-> JStr(<<"summary">>)]), JArr(<<>>)}

\* lines 96-125: arguments, prompt template, database and windowed table
SumStart(surface, prompt, tbl) ==
    /\ pc = "idle"
    /\ LET r == [NoRun EXCEPT !.comp = "summarizer", !.surface = surface]
       IN  IF prompt = "missing" \/ prompt = "noTask" \/ ~db.file \/ tbl = "absent"
           THEN \* sys.exit(1), or the IndexError of split("TASK")[1]
                /\ run' = [r EXCEPT !.exit = "1"]
                /\ pc' = "idle"
           ELSE /\ run' = [r EXCEPT !.setup = TRUE, !.tableRows = (tbl = "rows")]
                /\ pc' = "sum_loaded"
    /\ UNCHANGED <<pss, qsrFile, db, clock, view, probe>>

\* lines 127-129
SumEmpty ==
    /\ pc = "sum_loaded"
    /\ ~run.tableRows
    /\ run' = [run EXCEPT !.data = EmptySummary(run.surface)]
    /\ pc' = "sum_write"
    /\ UNCHANGED <<pss, qsrFile, db, clock, view, probe>>

\* lines 130-136 and the except clause of 141-143
SumGetClient(env) ==
    /\ pc = "sum_loaded"
    /\ run.tableRows
    /\ LET sel == platform_get_llm_client_and_model(env)
           r == [run EXCEPT !.key = IF env.key THEN "set" ELSE "unset",
                            !.sel = sel, !.lookups = @ + 1]
       IN  IF sel.ok
           THEN /\ run' = r
                /\ pc' = "sum_client"
           ELSE /\ run' = [r EXCEPT !.failure = sel.err, !.data = ErrorSummary(run.surface)]
                /\ pc' = "sum_write"
    /\ UNCHANGED <<pss, qsrFile, db, clock, view, probe>>

\* lines 138-143
SumQuery(reply) ==
    /\ pc = "sum_client"
    /\ LET loaded == LoadReply(platform_query_llm(run.sel.provider, reply))
           r == [run EXCEPT !.calls = @ + 1]
       IN  IF loaded.ok
           THEN run' = [r EXCEPT !.data = loaded.doc]
           ELSE run' = [r EXCEPT !.failure = loaded.err, !.data = ErrorSummary(run.surface)]
    /\ pc' = "sum_write"
    /\ UNCHANGED <<pss, qsrFile, db, clock, view, probe>>

\* lines 145-149; --out is <surface>.pss.json
SumWrite ==
    /\ pc = "sum_write"
    /\ pss' = [pss EXCEPT ![run.surface] = File(json_dumps(run.data))]
    /\ run' = [run EXCEPT !.wrote = TRUE, !.exit = "0"]
    /\ pc' = "idle"
    /\ UNCHANGED <<qsrFile, db, clock, view, probe>>

----------------------------------------------------------------------------
(* Aggregator: aggregate_agent.main *)

\* a placeholder that carries no error description
Placeholder_silent(error, summary) ==
    JObj([incidents |-> JArr(<<>>), summary |-> JStr(summary)])

\* lines 92-101: the object that stands for a PSS file that cannot be used
Placeholder(error, summary) ==
    JObj([error |-> JStr(error), incidents |-> JArr(<<>>), summary |-> JStr(summary)])

\* the loading loop taking every JSON object for a valid summary
LoadPss_lenient(surface, file) ==
    IF file.st = "missing"
    THEN [valid |-> FALSE,
          data |-> Placeholder(<<"File not found: ", surface, ".pss.json">>, <<"Data not available">>)]
    ELSE IF file.st = "unreadable"
    THEN [valid |-> FALSE, data |-> Placeholder(<<ExcText>>, <<>>)]
    ELSE LET loaded == json_loads(file.text)
         IN  IF ~loaded.ok
             THEN [valid |-> FALSE,
                   data |-> Placeholder(<<"Invalid JSON in ", surface, ".pss.json">>, <<>>)]
             ELSE IF IsDict(loaded.doc)
             THEN [valid |-> TRUE, data |-> loaded.doc]
             ELSE [valid |-> FALSE,
                   data |-> Placeholder(<<"Invalid structure in ", surface, ".pss.json">>, <<>>)]

\* the loading loop taking a PSS with an error key for an unusable one
LoadPss_strict(surface, file) ==
    IF file.st = "missing"
    THEN [valid |-> FALSE,
          data |-> Placeholder(<<"File not found: ", surface, ".pss.json">>, <<"Data not available">>)]
    ELSE IF file.st = "unreadable"
    THEN [valid |-> FALSE, data |-> Placeholder(<<ExcText>>, <<>>)]
    ELSE LET loaded == json_loads(file.text)
         IN  IF ~loaded.ok
             THEN [valid |-> FALSE,
                   data |-> Placeholder(<<"Invalid JSON in ", surface, ".pss.json">>, <<>>)]
             ELSE IF IsDict(loaded.doc) /\ HasKey(loaded.doc, "incidents")
                                        /\ HasKey(loaded.doc, "summary")
                                        /\ ~HasKey(loaded.doc, "error")
             THEN [valid |-> TRUE, data |-> loaded.doc]
             ELSE [valid |-> FALSE,
                   data |-> Placeholder(<<"Invalid structure in ", surface, ".pss.json">>, <<>>)]

\* lines 80-101, one turn of the loading loop: the entry of
\* platform_data_for_llm and whether the file counts as a valid summary
LoadPss(surface, file) ==
    IF file.st = "missing"
    THEN [valid |-> FALSE,
          data |-> Placeholder(<<"File not found: ", surface, ".pss.json">>, <<"Data not available">>)]
    ELSE IF file.st = "unreadable"
    THEN [valid |-> FALSE, data |-> Placeholder(<<ExcText>>, <<>>)]
    ELSE LET loaded == json_loads(file.text)
         IN  IF ~loaded.ok
             THEN [valid |-> FALSE,
                   data |-> Placeholder(<<"Invalid JSON in ", surface, ".pss.json">>, <<>>)]
             ELSE IF IsDict(loaded.doc) /\ HasKey(loaded.doc, "incidents")
                                        /\ HasKey(loaded.doc, "summary")
             THEN [valid |-> TRUE, data |-> loaded.doc]
             ELSE [valid |-> FALSE,
                   data |-> Placeholder(<<"Invalid structure in ", surface, ".pss.json">>, <<>>)]

\* lines 105-109
NoPssQsr ==
    JObj([narrative |-> JStr(<<"Failed to generate QSR: No valid platform summaries were found or loaded.">>),
          risk_vector |-> JObj(EmptyMap), macro_patterns |-> JArr(<<>>),
          recommended_action |-> JObj([tier |-> JInt(-1), justification |-> JStr(<<"No platform data.">>)]),
          error |-> JTrue])

\* the error QSR with the lowest regular tier
ErrorQsr_tier0 ==
    JObj([narrative |-> JStr(<<"Error generating QSR: ", ExcText>>),
          risk_vector |-> JObj(EmptyMap), macro_patterns |-> JArr(<<>>),
          recommended_action |-> JObj([tier |-> JInt(0), justification |-> JStr(<<"Error in QSR generation.">>)]),
          error |-> JTrue])

\* line 122
ErrorQsr ==
    JObj([narrative |-> JStr(<<"Error generating QSR: ", ExcText>>),
          risk_vector |-> JObj(EmptyMap), macro_patterns |-> JArr(<<>>),
          recommended_action |-> JObj([tier |-> JInt(-1), justification |-> JStr(<<"Error in QSR generation.">>)]),
          error |-> JTrue])

\* JSON documents an LLM may answer the Aggregator with: a QSR of any tier
\* 0..MaxLlmTier, a QSR whose tier is a word or is absent, an object that is
\* not a QSR, and a value that is not an object
QsrWith(action) ==
    JObj([narrative |-> JStr(<<"narrative">>),
          risk_vector |-> JObj([child_safety |-> JInt(1)]),
          macro_patterns |-> JArr(<<JStr(<<"pattern">>)>>),
          recommended_action |-> JObj(action)])
QsrReplyDocs ==
    {QsrWith([tier |-> JInt(t), justification |-> JStr(<<"why">>)]) : t \in 0..MaxLlmTier}
    \cup {QsrWith([tier |-> JStr(<<"high">>), justification |-> JStr(<<"why">>)]),
          QsrWith([justification |-> JStr(<<"why">>)]),
          JObj(EmptyMap), JArr(<<>>)}

\* lines 137-145: the row of one INSERT; report_ts is DEFAULT now()
ReportRow(now, qsr_data) ==
    LET error == Truthy(Get(qsr_data, "error", JNull))
    IN  [report_ts |-> now,
         narrative |-> Get(qsr_data, "narrative",
                           IF error THEN JStr(<<"N/A due to error">>) ELSE JStr(<<>>)),
         risk_vector |-> json_dumps(Get(qsr_data, "risk_vector", JObj(EmptyMap))),
         macro_patterns |-> json_dumps(Get(qsr_data, "macro_patterns", JArr(<<>>))),
         recommended_action |->
             json_dumps(Get(qsr_data, "recommended_action",
                            IF error
                            THEN JObj([tier |-> JInt(-1), justification |-> JStr(<<"N/A due to error">>)])
                            ELSE JObj(EmptyMap))),
         raw_json |-> json_dumps(qsr_data)]

\* an insertion that replaces the table's content
InsertRow_replace(rows, row) == <<row>>

\* INSERT INTO qsr_reports
InsertRow(rows, row) == Append(rows, row)

\* lines 61-101: arguments, prompt template and the loading loop.  Each
\* invocation happens at a later time than the one before.
AggStart(prompt) ==
    /\ pc = "idle"
    /\ clock < MaxClock
    /\ clock' = clock + 1
    /\ LET r == [NoRun EXCEPT !.comp = "aggregator", !.rowsBefore = Len(db.rows)]
       IN  IF prompt = "missing" \/ prompt = "noTask"
           THEN \* sys.exit(1), or the IndexError of split("TASK")[1]
                /\ run' = [r EXCEPT !.exit = "1"]
                /\ pc' = "aggregated"
           ELSE /\ run' = [r EXCEPT
                              !.setup = TRUE,
                              !.platform_data =
                                  [s \in PLATFORM_SURFACES |-> LoadPss(s, pss[s]).data],
                              !.found_any_pss =
                                  \E s \in PLATFORM_SURFACES : LoadPss(s, pss[s]).valid]
                /\ pc' = "agg_loaded"
    /\ UNCHANGED <<pss, qsrFile, db, view, probe>>

\* lines 103-109
AggNoPss ==
    /\ pc = "agg_loaded"
    /\ ~run.found_any_pss
    /\ run' = [run EXCEPT !.data = NoPssQsr]
    /\ pc' = "agg_write"
    /\ UNCHANGED <<pss, qsrFile, db, clock, view, probe>>

\* lines 110-116 and the except clause of 120-122
AggGetClient(env) ==
    /\ pc = "agg_loaded"
    /\ run.found_any_pss
    /\ LET sel == aggregate_get_llm_client_and_model(env)
           r == [run EXCEPT !.key = IF env.key THEN "set" ELSE "unset",
                            !.sel = sel, !.lookups = @ + 1]
       IN  IF sel.ok
           THEN /\ run' = r
                /\ pc' = "agg_client"
           ELSE /\ run' = [r EXCEPT !.failure = sel.err, !.data = ErrorQsr]
                /\ pc' = "agg_write"
    /\ UNCHANGED <<pss, qsrFile, db, clock, view, probe>>

\* lines 118-122
AggQuery(reply) ==
    /\ pc = "agg_client"
    /\ LET loaded == LoadReply(aggregate_query_llm(run.sel.provider, reply))
           \* line 111: combined_pss_json_str, the object inside user_content
           r == [run EXCEPT !.calls = @ + 1,
                            !.sent = json_dumps(JObj(run.platform_data))]
       IN  IF loaded.ok
           THEN run' = [r EXCEPT !.data = loaded.doc]
           ELSE run' = [r EXCEPT !.failure = loaded.err, !.data = ErrorQsr]
    /\ pc' = "agg_write"
    /\ UNCHANGED <<pss, qsrFile, db, clock, view, probe>>

\* lines 124-127
AggWrite ==
    /\ pc = "agg_write"
    /\ qsrFile' = File(json_dumps(run.data))
    /\ run' = [run EXCEPT !.wrote = TRUE]
    /\ pc' = "agg_persist"
    /\ UNCHANGED <<pss, db, clock, view, probe>>

\* lines 129-149: connect, CREATE TABLE IF NOT EXISTS, INSERT; every exception
\* is caught and printed.  fault: duckdb.connect raises.  qsr_data.get raises
\* AttributeError when qsr_data is not a dict.
AggPersist(fault) ==
    /\ pc = "agg_persist"
    /\ IF fault
       THEN /\ db' = db
            /\ run' = [run EXCEPT !.dbFault = TRUE, !.exit = "0"]
       ELSE IF ~IsDict(run.data)
       THEN /\ db' = [db EXCEPT !.file = TRUE, !.table = TRUE]
            /\ run' = [run EXCEPT !.exit = "0"]
       ELSE /\ db' = [db EXCEPT !.file = TRUE, !.table = TRUE,
                                !.rows = InsertRow(@, ReportRow(clock, run.data))]
            /\ run' = [run EXCEPT !.inserted = TRUE, !.exit = "0"]
    /\ pc' = "aggregated"
    /\ UNCHANGED <<pss, qsrFile, clock, view, probe>>

\* the Aggregator is invoked again
Rerun ==
    /\ pc = "aggregated"
    /\ pc' = "idle"
    /\ UNCHANGED <<pss, qsrFile, db, clock, run, view, probe>>

----------------------------------------------------------------------------
(* Dashboard: dashboard/ui.py *)

NoView == [shown |-> "none", message |-> "none", latest |-> <<>>]
Halted(message) == [shown |-> "message", message |-> message, latest |-> <<>>]

\* SELECT * FROM qsr_reports ORDER BY report_ts DESC, then iloc[0]: the
\* positions of the rows that the ordering may put first
FirstByRecency(rows) ==
    {i \in 1..Len(rows) : \A j \in 1..Len(rows) : rows[j].report_ts <= rows[i].report_ts}

\* lines 56-77: the JSON columns of the selected row parse
ColumnsParse(row) ==
    /\ json_loads(row.risk_vector).ok
    /\ json_loads(row.macro_patterns).ok
    /\ json_loads(row.raw_json).ok

\* lines 9-113, one rendering of the page.  fault: duckdb.connect raises.
\* The page opens the database read-only while no other process has it open.
Dashboard(fault) ==
    /\ pc \in {"idle", "aggregated"}
    /\ IF ~db.file
       THEN view' = Halted("Database not found")
       ELSE IF fault
       THEN view' = Halted("Error connecting to DuckDB")
       ELSE IF ~db.table
       THEN view' = Halted("Table 'qsr_reports' not found")
       ELSE IF db.rows = <<>>
       THEN view' = Halted("No QSR data found")
       ELSE \E i \in FirstByRecency(db.rows) :
               view' = [shown |-> IF ColumnsParse(db.rows[i]) THEN "report" ELSE "error",
                        message |-> "none",
                        latest |-> <<db.rows[i]>>]
    /\ UNCHANGED <<pss, qsrFile, db, clock, pc, run, probe>>

----------------------------------------------------------------------------
(* Specifications *)

\* the PSS files before the pipeline runs: absent, or left by something else
ForeignFiles == {Missing, Unreadable, File(Garbage)}

NoReports(file) == [file |-> file, table |-> FALSE, rows |-> <<>>]

\* The pipeline: Summarizer invocations in any number and order, then one
\* Aggregator invocation.
Init ==
    /\ pss \in [PLATFORM_SURFACES -> ForeignFiles]
    /\ qsrFile = Missing
    /\ db \in {NoReports(f) : f \in BOOLEAN}
    /\ clock = 0
    /\ pc = "idle"
    /\ run = NoRun
    /\ view = NoView
    /\ probe = NoProbe

Next ==
    \/ \E surface \in PLATFORM_SURFACES, prompt \in PromptStates, tbl \in TableStates :
          SumStart(surface, prompt, tbl)
    \/ SumEmpty
    \/ \E env \in Envs : SumGetClient(env)
    \/ \E reply \in Replies(PssReplyDocs) : SumQuery(reply)
    \/ SumWrite
    \/ \E prompt \in PromptStates : AggStart(prompt)
    \/ AggNoPss
    \/ \E env \in Envs : AggGetClient(env)
    \/ \E reply \in Replies(QsrReplyDocs) : AggQuery(reply)
    \/ AggWrite
    \/ \E fault \in BOOLEAN : AggPersist(fault)

Spec == Init /\ [][Next]_vars

\* The reports table over repeated Aggregator invocations, the PSS files being
\* all absent or all valid.
InitReports ==
    /\ \E f \in {Missing, File(json_dumps(ValidPss))} : pss = [s \in PLATFORM_SURFACES |-> f]
    /\ qsrFile = Missing
    /\ db \in {NoReports(f) : f \in BOOLEAN}
    /\ clock = 0
    /\ pc = "idle"
    /\ run = NoRun
    /\ view = NoView
    /\ probe = NoProbe

NextReports ==
    \/ \E prompt \in PromptStates : AggStart(prompt)
    \/ AggNoPss
    \/ \E env \in Envs : AggGetClient(env)
    \/ \E reply \in Replies(QsrReplyDocs) : AggQuery(reply)
    \/ AggWrite
    \/ \E fault \in BOOLEAN : AggPersist(fault)
    \/ Rerun

SpecReports == InitReports /\ [][NextReports]_vars

\* Provider selection alone: both copies of get_llm_client_and_model applied
\* to one environment, in either order.
Idle ==
    /\ pss = [s \in PLATFORM_SURFACES |-> Missing]
    /\ qsrFile = Missing
    /\ db = NoReports(FALSE)
    /\ clock = 0
    /\ pc = "idle"
    /\ run = NoRun
    /\ view = NoView

InitSelect ==
    /\ Idle
    /\ probe \in {[fn |-> "select", env |-> env, platform |-> <<>>, aggregate |-> <<>>] :
                      env \in Envs}

PlatformSelect ==
    /\ probe.fn = "select"
    /\ probe.platform = <<>>
    /\ probe' = [probe EXCEPT !.platform = <<platform_get_llm_client_and_model(probe.env)>>]
    /\ UNCHANGED <<pss, qsrFile, db, clock, pc, run, view>>

AggregateSelect ==
    /\ probe.fn = "select"
    /\ probe.aggregate = <<>>
    /\ probe' = [probe EXCEPT !.aggregate = <<aggregate_get_llm_client_and_model(probe.env)>>]
    /\ UNCHANGED <<pss, qsrFile, db, clock, pc, run, view>>

NextSelect ==
    \/ PlatformSelect
    \/ AggregateSelect

SpecSelect == InitSelect /\ [][NextSelect]_vars

\* The clean-up of query_llm alone: both copies applied to one reply text of
\* Provider B, made of optional whitespace, an optional opening fence, a
\* payload, an optional closing fence and optional whitespace.
PayloadChars == {"{", "}", " "}

RECURSIVE SeqsUpTo(_, _)
SeqsUpTo(chars, n) ==
    IF n = 0 THEN {<<>>}
    ELSE SeqsUpTo(chars, n - 1)
         \cup {Append(q, c) : q \in {x \in SeqsUpTo(chars, n - 1) : Len(x) = n - 1}, c \in chars}

ReplyParts ==
    [lead : {<<>>, <<" ">>}, open : {<<>>, FenceJson, Fence},
     payload : SeqsUpTo(PayloadChars, MaxPayload),
     close : {<<>>, Fence}, trail : {<<>>, <<" ">>}]

TextOf(parts) == parts.lead \o parts.open \o parts.payload \o parts.close \o parts.trail

\* query_llm raises for an empty text before the clean-up
InitClean ==
    /\ Idle
    /\ probe \in {[fn |-> "clean", parts |-> parts, platform |-> NoProbe, aggregate |-> NoProbe] :
                      parts \in {x \in ReplyParts : TextOf(x) # <<>>}}

PlatformClean ==
    /\ probe.fn = "clean"
    /\ probe.platform = NoProbe
    /\ probe' = [probe EXCEPT !.platform =
                     [fn |-> "done", text |-> platform_clean_markdown(TextOf(probe.parts))]]
    /\ UNCHANGED <<pss, qsrFile, db, clock, pc, run, view>>

AggregateClean ==
    /\ probe.fn = "clean"
    /\ probe.aggregate = NoProbe
    /\ probe' = [probe EXCEPT !.aggregate =
                     [fn |-> "done", text |-> aggregate_clean_markdown(TextOf(probe.parts))]]
    /\ UNCHANGED <<pss, qsrFile, db, clock, pc, run, view>>

NextClean ==
    \/ PlatformClean
    \/ AggregateClean

SpecClean == InitClean /\ [][NextClean]_vars

\* The Dashboard opened at any time between Aggregator invocations.
NextDashboard ==
    \/ \E prompt \in PromptStates : AggStart(prompt)
    \/ AggNoPss
    \/ \E env \in Envs : AggGetClient(env)
    \/ \E reply \in Replies(QsrReplyDocs) : AggQuery(reply)
    \/ AggWrite
    \/ \E fault \in BOOLEAN : AggPersist(fault)
    \/ Rerun
    \/ \E fault \in BOOLEAN : Dashboard(fault)

SpecDashboard == InitReports /\ [][NextDashboard]_vars

----------------------------------------------------------------------------
(* Properties *)

\* the value a file holds, for a file that holds JSON
DocOf(file) == json_loads(file.text).doc
HoldsJson(file) == file.st = "file" /\ json_loads(file.text).ok

\* the claims' "valid summary": a PSS file the Aggregator can use
IsValidPssFile(file) ==
    /\ HoldsJson(file)
    /\ HasKey(DocOf(file), "incidents")
    /\ HasKey(DocOf(file), "summary")

SummarizerRan == run.comp = "summarizer" /\ run.setup
AggregatorRan == run.comp = "aggregator" /\ run.setup

StartsWith(j, fragment) == j.t = "str" /\ j.v # <<>> /\ Head(j.v) = fragment

\* a QSR with recommended_action.tier == -1 and error set
IsErrorQsr(doc) ==
    /\ HasKey(doc, "recommended_action")
    /\ HasKey(doc.v.recommended_action, "tier")
    /\ doc.v.recommended_action.v.tier = JInt(-1)
    /\ HasKey(doc, "error")
    /\ doc.v.error = JTrue

\* a PSS with error: true, no incidents and a summary that explains
IsErrorPss(doc) ==
    /\ HasKey(doc, "error") /\ doc.v.error = JTrue
    /\ HasKey(doc, "incidents") /\ doc.v.incidents = JArr(<<>>)
    /\ HasKey(doc, "summary") /\ StartsWith(doc.v.summary, "Error processing data for ")

\* C1: a Summarizer run that passed its setup checks ends with a file at the
\* output path that holds JSON with the keys "incidents" and "summary"
C1_SummarizerAlwaysWritesPss ==
    (SummarizerRan /\ pc = "idle") =>
        /\ run.wrote
        /\ HoldsJson(pss[run.surface])
        /\ HasKey(DocOf(pss[run.surface]), "incidents")
        /\ HasKey(DocOf(pss[run.surface]), "summary")

\* C2: with an empty windowed table the Summarizer reads no credentials,
\* resolves no client and calls no LLM, it cannot end without writing, and
\* what it writes is exactly {incidents: [], summary: "No activity recorded..."}
C2_EmptyTableNoLlmCall ==
    (SummarizerRan /\ ~run.tableRows) =>
        /\ run.key = "unread" /\ run.lookups = 0 /\ run.calls = 0
        /\ run.failure = "none"
        /\ pc \in {"sum_loaded", "sum_write", "idle"}
        /\ (pc = "idle") = run.wrote
        /\ run.wrote =>
              /\ run.exit = "0"
              /\ HoldsJson(pss[run.surface])
              /\ LET doc == DocOf(pss[run.surface])
                 IN  /\ IsDict(doc)
                     /\ DOMAIN doc.v = {"incidents", "summary"}
                     /\ doc.v.incidents = JArr(<<>>)
                     /\ StartsWith(doc.v.summary, "No activity recorded for ")

C2_Witness ==
    /\ SummarizerRan /\ ~run.tableRows /\ pc = "idle" /\ run.wrote
    /\ pss[run.surface] = File(json_dumps(EmptySummary(run.surface)))

\* C3: when no PSS file is a valid summary the Aggregator resolves no client
\* and calls no LLM, and the QSR it writes has tier -1, error set, an empty
\* risk_vector, no macro_patterns and a narrative that reports the failure
C3_NoValidPssErrorQsr ==
    (AggregatorRan /\ \A s \in PLATFORM_SURFACES : ~IsValidPssFile(pss[s])) =>
        /\ ~run.found_any_pss
        /\ run.key = "unread" /\ run.lookups = 0 /\ run.calls = 0
        /\ pc \in {"agg_loaded", "agg_write", "agg_persist", "aggregated"}
        /\ (pc \in {"agg_persist", "aggregated"}) = run.wrote
        /\ run.wrote =>
              /\ HoldsJson(qsrFile)
              /\ LET doc == DocOf(qsrFile)
                 IN  /\ IsErrorQsr(doc)
                     /\ HasKey(doc, "risk_vector") /\ doc.v.risk_vector = JObj(EmptyMap)
                     /\ HasKey(doc, "macro_patterns") /\ doc.v.macro_patterns = JArr(<<>>)
                     /\ HasKey(doc, "narrative")
                     /\ StartsWith(doc.v.narrative, "Failed to generate QSR: No valid platform summaries were found or loaded.")

C3_Witness ==
    /\ AggregatorRan /\ pc = "aggregated" /\ run.wrote
    /\ \A s \in PLATFORM_SURFACES : ~IsValidPssFile(pss[s])
    /\ \E s \in PLATFORM_SURFACES : HoldsJson(pss[s])
    /\ \E s \in PLATFORM_SURFACES : pss[s] = File(Garbage)

\* C4: the QSR the Aggregator wrote has recommended_action.tier, an integer
\* in -1..3
C4_TierInRange ==
    (AggregatorRan /\ run.wrote) =>
        /\ HoldsJson(qsrFile)
        /\ HasKey(DocOf(qsrFile), "recommended_action")
        /\ HasKey(DocOf(qsrFile).v.recommended_action, "tier")
        /\ DocOf(qsrFile).v.recommended_action.v.tier \in {JInt(t) : t \in -1..3}

\* C5: an Aggregator run that got past its prompt file and whose database
\* opened ends with exactly one more row in the reports table
C5_EveryRunInsertsOneRow ==
    (AggregatorRan /\ pc = "aggregated" /\ ~run.dbFault) =>
        /\ run.inserted
        /\ Len(db.rows) = run.rowsBefore + 1

\* C6: with rows in the windowed table, a failure of client selection, of the
\* LLM call or of the parse leaves the Summarizer on its way to writing; it
\* ends with status 0 and a written PSS that has error: true, no incidents
\* and an explanatory summary
C6_SummarizerFailureIsRecovered ==
    (SummarizerRan /\ run.tableRows /\ run.failure # "none") =>
        /\ pc \in {"sum_write", "idle"}
        /\ IsErrorPss(run.data)
        /\ (pc = "idle") = run.wrote
        /\ run.wrote =>
              /\ run.exit = "0"
              /\ pss[run.surface] = File(json_dumps(run.data))

C6_Witness ==
    /\ SummarizerRan /\ run.tableRows /\ pc = "idle" /\ run.wrote
    /\ run.failure = "JSONDecodeError"
    /\ run.sel.provider = "google"

\* C7 as claimed: a component that needed the LLM and found no API key ends
\* with a non-zero exit status
C7_MissingKeyIsFatal ==
    (run.key = "unset" /\ run.exit # "running") => run.exit = "1"

\* C7 as amended: a component that needed the LLM and found no API key fails
\* client selection with a configuration error, calls no LLM, and ends with
\* status 0 and its error placeholder written
C7_MissingKeyIsRecovered ==
    (run.key = "unset") =>
        /\ ~run.sel.ok
        /\ run.failure \in {"LLM_API_KEY environment variable not set.", "LLM_API_KEY not set."}
        /\ run.lookups = 1 /\ run.calls = 0
        /\ run.exit # "1"
        /\ (run.exit = "0") = (pc \in {"idle", "aggregated"})
        /\ (run.exit = "0") =>
              /\ run.wrote
              /\ run.comp = "summarizer" =>
                    /\ HoldsJson(pss[run.surface])
                    /\ IsErrorPss(DocOf(pss[run.surface]))
              /\ run.comp = "aggregator" =>
                    /\ HoldsJson(qsrFile)
                    /\ IsErrorQsr(DocOf(qsrFile))

C7_Witness ==
    /\ run.comp = "aggregator" /\ run.key = "unset" /\ run.exit = "0"
    /\ \E s \in PLATFORM_SURFACES : pss[s] = File(json_dumps(ErrorSummary(s)))

\* C8: with a valid PSS loaded, a failure of client selection, of the LLM call
\* or of the parse makes the QSR an error QSR (tier -1, error set); the
\* Aggregator goes on, writes that QSR and ends with status 0
C8_AggregatorFailureIsRecovered ==
    (AggregatorRan /\ run.found_any_pss /\ run.failure # "none") =>
        /\ pc \in {"agg_write", "agg_persist", "aggregated"}
        /\ IsErrorQsr(run.data)
        /\ run.exit # "1"
        /\ (pc \in {"agg_persist", "aggregated"}) = run.wrote
        /\ run.wrote => qsrFile = File(json_dumps(run.data))
        /\ (pc = "aggregated") = (run.exit = "0")

C8_Witness ==
    /\ AggregatorRan /\ run.found_any_pss /\ pc = "aggregated"
    /\ run.failure = "JSONDecodeError" /\ run.calls = 1
    /\ run.exit = "0" /\ run.wrote

\* C9: the QSR the Aggregator wrote is an object with narrative, risk_vector,
\* macro_patterns and recommended_action, the last one with tier
C9_QsrFieldsPresent ==
    (AggregatorRan /\ run.wrote) =>
        /\ HoldsJson(qsrFile)
        /\ \A k \in {"narrative", "risk_vector", "macro_patterns", "recommended_action"} :
              HasKey(DocOf(qsrFile), k)
        /\ HasKey(DocOf(qsrFile).v.recommended_action, "tier")

\* C10: no step removes or changes a row of the reports table or drops the
\* table, and a row that a step adds is stamped no earlier than every row
\* that was there
C10_ReportsAppendOnly ==
    [][/\ db.table => db'.table
       /\ Len(db'.rows) >= Len(db.rows)
       /\ SubSeq(db'.rows, 1, Len(db.rows)) = db.rows
       /\ \A i \in 1..Len(db.rows), j \in (Len(db.rows) + 1)..Len(db'.rows) :
             db.rows[i].report_ts <= db'.rows[j].report_ts]_vars

C10_Witness ==
    /\ pc = "aggregated" /\ run.inserted
    /\ Len(db.rows) >= 2
    /\ db.rows[1].raw_json # db.rows[2].raw_json

\* C11: when the Dashboard is opened after an Aggregator run that got past
\* its prompt file, with the database opening for both, it shows the row
\* that this most recent run inserted and changes nothing in the database;
\* without the database file or the reports table it shows a message and no
\* report
C11_DashboardShowsLatestRun ==
    [][(view' # view) =>
          /\ db' = db
          /\ (~db.file \/ ~db.table) => (view'.shown = "message" /\ view'.latest = <<>>)
          /\ (AggregatorRan /\ ~run.dbFault /\ view'.message # "Error connecting to DuckDB") =>
                /\ run.inserted
                /\ view'.shown = "report"
                /\ view'.latest = <<db.rows[Len(db.rows)]>>
                /\ view'.latest[1].report_ts = clock]_vars

\* a placeholder: an object with a non-empty error description, no incidents
\* and the given summary
IsPlaceholder(doc, summary) ==
    /\ IsDict(doc)
    /\ DOMAIN doc.v = {"error", "incidents", "summary"}
    /\ doc.v.error.t = "str" /\ doc.v.error.v # <<>>
    /\ doc.v.incidents = JArr(<<>>)
    /\ doc.v.summary = JStr(summary)

\* once the loading loop is over, the combined object has one entry per
\* platform, the run goes on, and an LLM call carries that object
CombinedObjectSent ==
    /\ DOMAIN run.platform_data = PLATFORM_SURFACES
    /\ run.exit # "1"
    /\ (run.calls = 0) = (run.sent = Garbage)
    /\ run.calls > 0 =>
          /\ json_loads(run.sent).ok
          /\ json_loads(run.sent).doc = JObj(run.platform_data)

\* C12 as claimed: every PSS file that is not a valid summary is replaced
\* by a placeholder with an error description, no incidents and an empty
\* summary, and the combined object of three entries goes to the LLM
C12_PlaceholderHasEmptyFields ==
    AggregatorRan =>
        /\ \A s \in PLATFORM_SURFACES :
              ~IsValidPssFile(pss[s]) => IsPlaceholder(run.platform_data[s], <<>>)
        /\ CombinedObjectSent

\* C12 as amended: the placeholder's summary is empty, except for a missing
\* file, where it is "Data not available"
C12_PlaceholderPerFile ==
    AggregatorRan =>
        /\ \A s \in PLATFORM_SURFACES :
              ~IsValidPssFile(pss[s]) =>
                  IsPlaceholder(run.platform_data[s],
                                IF pss[s].st = "missing" THEN <<"Data not available">> ELSE <<>>)
        /\ CombinedObjectSent

C12_Witness ==
    /\ AggregatorRan /\ pc = "aggregated" /\ run.calls = 1
    /\ \E s \in PLATFORM_SURFACES : pss[s] = Missing
    /\ \E s \in PLATFORM_SURFACES : pss[s] = File(Garbage)
    /\ \E s \in PLATFORM_SURFACES : IsValidPssFile(pss[s])

\* the PSS files the Summarizer writes on its fallback paths
IsFallbackPss(s) ==
    pss[s] \in {File(json_dumps(EmptySummary(s))), File(json_dumps(ErrorSummary(s)))}
IsErrorFlaggedPss(s) == pss[s] = File(json_dumps(ErrorSummary(s)))

\* a fallback PSS is loaded as it is and counts as a valid summary
FallbackPssIsValidData ==
    /\ \A s \in PLATFORM_SURFACES : IsFallbackPss(s) => run.platform_data[s] = DocOf(pss[s])
    /\ run.found_any_pss
    /\ pc # "agg_loaded" => (run.lookups = 1 /\ run.data # NoPssQsr)

\* C13 as claimed: a run over three error-flagged PSS files takes them for
\* valid data and ends having called the LLM
C13_ErrorFlaggedPssLeadsToLlmCall ==
    (AggregatorRan /\ pc = "aggregated" /\ \A s \in PLATFORM_SURFACES : IsErrorFlaggedPss(s)) =>
        /\ FallbackPssIsValidData
        /\ run.calls = 1

\* C13 as amended: a run that finds a fallback PSS of the Summarizer takes it
\* for valid data and goes to client selection, never to the no-valid-PSS
\* error QSR; it calls the LLM exactly when client selection succeeds
C13_FallbackPssLeadsToLlmBranch ==
    (AggregatorRan /\ \E s \in PLATFORM_SURFACES : IsFallbackPss(s)) =>
        /\ FallbackPssIsValidData
        /\ pc \in {"agg_write", "agg_persist", "aggregated"} =>
              (run.calls = 1) = run.sel.ok

C13_Witness ==
    /\ AggregatorRan /\ pc = "aggregated" /\ run.calls = 1
    /\ \A s \in PLATFORM_SURFACES : IsErrorFlaggedPss(s)

\* the model name in force: LLM_MODEL, or the default when it is unset
Configured(env) == IF env.model = <<>> THEN DEFAULT_LLM_MODEL ELSE env.model

\* the parts of C14 that do not depend on how a prefix without its library
\* is read: failure exactly without key or without any library, only an
\* available library is selected, Provider A keeps the configured name and
\* Provider B keeps it when it is one of its own and takes gemini-pro otherwise
SelectionFrame(env, r) ==
    /\ r.ok = (env.key /\ (env.OpenAI \/ env.genai))
    /\ ~r.ok => (r.err # "none" /\ r.provider = "none")
    /\ r.ok =>
          /\ r.provider \in {"openai", "google"}
          /\ r.provider = "openai" => (env.OpenAI /\ r.model = Configured(env))
          /\ r.provider = "google" =>
                /\ env.genai
                /\ r.model = IF startswith(Configured(env), "gemini")
                             THEN Configured(env) ELSE <<"gemini", "-pro">>

SameSelection(a, b) == a.ok = b.ok /\ a.provider = b.provider /\ a.model = b.model

BothCopiesAgree ==
    (probe.platform # <<>> /\ probe.aggregate # <<>>) =>
        SameSelection(probe.platform[1], probe.aggregate[1])

SelectionResults == {probe.platform[i] : i \in DOMAIN probe.platform}
                    \cup {probe.aggregate[i] : i \in DOMAIN probe.aggregate}

\* C14 as claimed: with a key, a gpt prefix selects Provider A and a gemini
\* prefix Provider B, each with the configured name, whenever the selection
\* succeeds; the rest as in SelectionFrame; both copies agree
C14_PrefixSelectsProvider ==
    (probe.fn = "select") =>
        /\ \A r \in SelectionResults :
              /\ SelectionFrame(probe.env, r)
              /\ (r.ok /\ startswith(Configured(probe.env), "gpt")) =>
                    (r.provider = "openai" /\ r.model = Configured(probe.env))
              /\ (r.ok /\ startswith(Configured(probe.env), "gemini")) =>
                    (r.provider = "google" /\ r.model = Configured(probe.env))
        /\ BothCopiesAgree

\* C14 as amended: a recognized prefix selects its provider when that
\* provider's library is available; in every other case Provider A is used if
\* its library is available and Provider B otherwise
C14_PrefixSelectsAvailableProvider ==
    (probe.fn = "select") =>
        /\ \A r \in SelectionResults :
              LET env == probe.env
                  gpt == startswith(Configured(env), "gpt") /\ env.OpenAI
                  gemini == startswith(Configured(env), "gemini") /\ env.genai
              IN  /\ SelectionFrame(env, r)
                  /\ (r.ok /\ gpt) => (r.provider = "openai" /\ r.model = Configured(env))
                  /\ (r.ok /\ gemini) => (r.provider = "google" /\ r.model = Configured(env))
                  /\ (r.ok /\ ~gpt /\ ~gemini) =>
                        r.provider = IF env.OpenAI THEN "openai" ELSE "google"
        /\ BothCopiesAgree

C14_Witness ==
    /\ probe.fn = "select"
    /\ probe.platform # <<>> /\ probe.aggregate # <<>>
    /\ probe.env.key /\ ~probe.env.OpenAI /\ probe.env.genai
    /\ startswith(Configured(probe.env), "gpt")
    /\ probe.aggregate[1] = Selected("google", <<"gemini", "-pro">>)

\* the texts that the clean-up has returned for the reply under test
CleanResults ==
    {r.text : r \in {x \in {probe.platform, probe.aggregate} : x # NoProbe}}

\* C15: the clean-up returns the payload of a reply that opens with a fence,
\* whether the reply ends with a fence or not, and removes no character of
\* the payload of a reply without fences
C15_CleanupKeepsPayload ==
    (probe.fn = "clean") =>
        \A text \in CleanResults :
            /\ probe.parts.open # <<>> => text = strip(probe.parts.payload)
            /\ (probe.parts.open = <<>> /\ probe.parts.close = <<>>) =>
                  strip(text) = strip(probe.parts.payload)

====
